---- MODULE Spec2Model ----
(***************************************************************************)
(* Model of matmeta/payload_metaclass.py: the requirement schemas, the     *)
(* validator, the citation formatter and the three payload classes          *)
(* (CITPayload, MDFPayload, MCPayload) built from one Common Record.        *)
(*                                                                         *)
(* Python values are tagged records:                                       *)
(*   None            [k |-> "none"]                                        *)
(*   str             [k |-> "str",  s |-> sequence of characters]          *)
(*   int             [k |-> "int",  i |-> number]                          *)
(*   dict            [k |-> "dict", d |-> function from the keys present]  *)
(*   list            [k |-> "list", l |-> sequence of values]              *)
(* A dict's keys are TLA+ strings; "key in d" is membership in DOMAIN.     *)
(* A character is one string; the only whitespace character is " ".        *)
(***************************************************************************)
EXTENDS Integers, Sequences, FiniteSets, TLC

VARIABLES record, status, stored, error, mp, out, citation, formatted,
          servicesArg, template, heap, human, pubKwargs, pub, pubOut,
          people, shared, threads, expected

vars == <<record, status, stored, error, mp, out, citation, formatted,
          servicesArg, template, heap, human, pubKwargs, pub, pubOut,
          people, shared, threads, expected>>

templateVars == <<servicesArg, template>>

\* the variables of the other state machines, as seen from the payload
\* classes and from the citation formatter
humanVars == <<heap, human>>

pubVars == <<pubKwargs, pub, pubOut>>

concVars == <<people, shared, threads, expected>>

otherVars == <<templateVars, humanVars, pubVars, concVars>>

payloadVars == <<record, status, stored, error, mp, out>>

citeVars == <<citation, formatted>>

(***************************************************************************)
(* Python values                                                           *)
(***************************************************************************)
None == [k |-> "none"]

Str(chars) == [k |-> "str", s |-> chars]

IntVal(n) == [k |-> "int", i |-> n]

Dict(f) == [k |-> "dict", d |-> f]

List(q) == [k |-> "list", l |-> q]

EmptyDict == [x \in {} |-> None]

IsDict(v) == v.k = "dict"

IsList(v) == v.k = "list"

\* a one-word string: the word is a single non-blank character of the model
Word(w) == Str(<<w>>)

(***************************************************************************)
(* Field Schema Registry                                                   *)
(***************************************************************************)
Services == {"citrine", "materials_commons", "materials_data_facility"}

citrine_metadata_requirements == EmptyDict

\* Materials Commons asking for the url of the source as well
materials_commons_metadata_requirementsWithUrl ==
    [key \in {"source", "description"} |->
        IF key = "source" THEN Dict([n \in {"name", "url"} |-> Word("string")])
        ELSE Word("string")]

materials_commons_metadata_requirements ==
    [key \in {"source", "description"} |->
        IF key = "source" THEN Dict([n \in {"name"} |-> Word("string")])
        ELSE Word("string")]

PersonRequirement ==
    Dict([n \in {"given_name", "family_name", "email"} |-> Word("string")])

materials_data_facility_metadata_requirements ==
    [key \in {"title", "source", "data_contacts", "data_contributors", "links"} |->
        CASE key = "title" -> Word("string")
          [] key = "source" -> Dict([n \in {"name"} |-> Word("string")])
          [] key = "data_contacts" -> List(<<PersonRequirement>>)
          [] key = "data_contributors" -> List(<<PersonRequirement>>)
          [] key = "links" -> Dict([n \in {"landing_page"} |-> Word("uri")])]

\* eval('_%s_metadata_requirements()' % service)
ServiceRequirements(service) ==
    CASE service = "citrine" -> citrine_metadata_requirements
      [] service = "materials_commons" -> materials_commons_metadata_requirements
      [] service = "materials_data_facility" ->
            materials_data_facility_metadata_requirements

\* the keys of get_common_payload_template()['all_fields']
AllFieldKeys ==
    {"title", "source", "data_contacts", "data_contributors", "links",
     "authors", "licenses", "citations", "repository", "collection", "tags",
     "description", "raw", "year", "composition"}

\* one pass of the loop "for key in service_requirements: if not key in
\* combined_requirements: combined_requirements[key] = ..." (first writer wins)
MergeRequirements(combined, reqs) ==
    [key \in DOMAIN combined \cup DOMAIN reqs |->
        IF key \in DOMAIN combined THEN combined[key] ELSE reqs[key]]

RECURSIVE CombineRequirements(_, _)
CombineRequirements(combined, services) ==
    IF services = <<>> THEN combined
    ELSE CombineRequirements(
            MergeRequirements(combined, ServiceRequirements(Head(services))),
            Tail(services))

\* get_common_payload_template(services)['required_fields'] for a list of
\* service identifiers of which at least one is known
RequiredFields(services) ==
    CombineRequirements(EmptyDict, SelectSeq(services, LAMBDA s : s \in Services))

(***************************************************************************)
(* Validator                                                               *)
(***************************************************************************)
NoError == [type |-> "none", names |-> {}]

\* raise Exception("Missing input fields.  Expected %s." % ', '.join(output_keys))
\* The message is kept as the set of names joined into it.
MissingFieldsError(names) == [type |-> "Exception", names |-> names]

\* actual_inputs.keys() on a value that is no mapping
AttributeError == [type |-> "AttributeError", names |-> {}]

TypeError == [type |-> "TypeError", names |-> {}]

\* prefix = '%s.' if keypath else '' ; '%s%s' % (prefix, key)
OutputKeys(required_keys, keypath) ==
    LET prefix == IF keypath # "" THEN "%s." ELSE ""
    IN  {prefix \o key : key \in required_keys}

\* new_keypath = key if not keypath else '%s.%s' % (keypath, key)
NewKeypath(keypath, key) ==
    IF keypath = "" THEN key ELSE keypath \o "." \o key

\* _validate_inputs that also descends into list-typed requirements, holding
\* every element of the actual list to the schema of the list's element
RECURSIVE validate_inputsIntoLists(_, _, _)
validate_inputsIntoLists(actual_inputs, required_inputs, keypath) ==
    IF ~IsDict(actual_inputs) THEN {AttributeError}
    ELSE
      LET actual_keys == DOMAIN actual_inputs.d
          required_keys == DOMAIN required_inputs
      IN  IF actual_keys \cap required_keys # required_keys
          THEN {MissingFieldsError(OutputKeys(required_keys, keypath))}
          ELSE UNION {IF IsDict(required_inputs[key])
                      THEN validate_inputsIntoLists(actual_inputs.d[key],
                                                    required_inputs[key].d,
                                                    NewKeypath(keypath, key))
                      ELSE IF IsList(actual_inputs.d[key])
                      THEN UNION {validate_inputsIntoLists(
                                      actual_inputs.d[key].l[i],
                                      required_inputs[key].l[1].d,
                                      NewKeypath(keypath, key)) :
                                    i \in DOMAIN actual_inputs.d[key].l}
                      ELSE {AttributeError} :
                        key \in {x \in required_keys :
                                   IsDict(required_inputs[x]) \/ IsList(required_inputs[x])}}

\* The set of errors _validate_inputs can raise (empty: it returns).  The
\* loop over required_keys iterates a set, so when several nested schemas
\* fail, whichever the iteration meets first raises.  keypath None is "".
RECURSIVE validate_inputs(_, _, _)
validate_inputs(actual_inputs, required_inputs, keypath) ==
    IF ~IsDict(actual_inputs) THEN {AttributeError}
    ELSE
      LET actual_keys == DOMAIN actual_inputs.d
          required_keys == DOMAIN required_inputs
      IN  IF actual_keys \cap required_keys # required_keys
          THEN {MissingFieldsError(OutputKeys(required_keys, keypath))}
          ELSE UNION {validate_inputs(actual_inputs.d[key],
                                      required_inputs[key].d,
                                      NewKeypath(keypath, key)) :
                        key \in {x \in required_keys : IsDict(required_inputs[x])}}

(***************************************************************************)
(* Citation Formatter                                                      *)
(***************************************************************************)
Digit(n) == <<"0", "1", "2", "3", "4", "5", "6", "7", "8", "9">>[n + 1]

\* str() of a non-negative int: its decimal digits
RECURSIVE IntToStr(_)
IntToStr(n) ==
    IF n < 10 THEN <<Digit(n)>> ELSE IntToStr(n \div 10) \o <<Digit(n % 10)>>

\* str(value): a str is itself, an int its digits
PyStr(v) == IF v.k = "int" THEN IntToStr(v.i) ELSE v.s

\* separator.join(strings)
RECURSIVE Join(_, _)
Join(strings, separator) ==
    IF strings = <<>> THEN <<>>
    ELSE IF Len(strings) = 1 THEN Head(strings)
    ELSE Head(strings) \o separator \o Join(Tail(strings), separator)

RECURSIVE LStrip(_)
LStrip(chars) ==
    IF chars # <<>> /\ Head(chars) = " " THEN LStrip(Tail(chars)) ELSE chars

RECURSIVE RStrip(_)
RStrip(chars) ==
    IF chars # <<>> /\ chars[Len(chars)] = " "
    THEN RStrip(SubSeq(chars, 1, Len(chars) - 1)) ELSE chars

\* str.strip()
Strip(chars) == RStrip(LStrip(chars))

sep == <<".", " ">>

\* the loop over citation['authors']: authors without family_name are skipped
RECURSIVE AuthorNames(_)
AuthorNames(authors) ==
    IF authors = <<>> THEN <<>>
    ELSE LET author == Head(authors).d
         IN  IF "family_name" \notin DOMAIN author THEN AuthorNames(Tail(authors))
             ELSE <<author["family_name"].s \o
                      (IF "given_name" \in DOMAIN author
                       THEN <<" ">> \o author["given_name"].s ELSE <<>>)>>
                  \o AuthorNames(Tail(authors))

\* output += citation[key] + sep, when the key is in the citation
FieldThenSep(c, key) ==
    IF key \in DOMAIN c THEN c[key].s \o sep ELSE <<>>

\* JournalPart with issue and page_location appended whether or not the
\* citation has a volume
JournalPartUnnested(c) ==
    c["journal"].s \o sep \o
    (IF "volume" \in DOMAIN c THEN c["volume"].s ELSE <<>>) \o
    (IF "issue" \in DOMAIN c THEN <<"(">> \o c["issue"].s \o <<")">> ELSE <<>>) \o
    (IF "page_location" \in DOMAIN c
     THEN <<":">> \o c["page_location"].s \o sep ELSE <<>>)

\* the journal branch of _citation_to_string
JournalPart(c) ==
    c["journal"].s \o sep \o
    (IF "volume" \in DOMAIN c
     THEN c["volume"].s \o
          (IF "issue" \in DOMAIN c THEN <<"(">> \o c["issue"].s \o <<")">> ELSE <<>>) \o
          (IF "page_location" \in DOMAIN c
           THEN <<":">> \o c["page_location"].s \o sep ELSE <<>>)
     ELSE <<>>)

\* the book branch of _citation_to_string
BookPart(c) ==
    FieldThenSep(c, "edition") \o
    (IF "publication_location" \in DOMAIN c
     THEN c["publication_location"].s \o
          (IF "publisher" \in DOMAIN c
           THEN <<":", " ">> \o c["publisher"].s \o sep ELSE <<>>)
     ELSE FieldThenSep(c, "publisher")) \o
    FieldThenSep(c, "extent") \o
    FieldThenSep(c, "notes")

\* _citation_to_string with the book fields appended after the journal
\* fields instead of in the else branch
citation_to_stringBothParts(c) ==
    Strip(
        (IF "authors" \in DOMAIN c
         THEN Join(AuthorNames(c["authors"].l), <<",", " ">>) \o sep ELSE <<>>) \o
        (IF "year" \in DOMAIN c THEN PyStr(c["year"]) \o sep ELSE <<>>) \o
        FieldThenSep(c, "title") \o
        (IF "journal" \in DOMAIN c THEN JournalPart(c) ELSE <<>>) \o
        BookPart(c))

\* _citation_to_string(citation): citation is the dict's function
citation_to_string(c) ==
    Strip(
        (IF "authors" \in DOMAIN c
         THEN Join(AuthorNames(c["authors"].l), <<",", " ">>) \o sep ELSE <<>>) \o
        (IF "year" \in DOMAIN c THEN PyStr(c["year"]) \o sep ELSE <<>>) \o
        FieldThenSep(c, "title") \o
        (IF "journal" \in DOMAIN c THEN JournalPart(c) ELSE BookPart(c)))

(***************************************************************************)
(* Payload classes                                                         *)
(***************************************************************************)
\* PublishablePayload.__init__: the keys copied into the payload object.  The
\* values are stored by reference, so the object's entry for a key is the
\* record's value for it.
PublishablePayload_init(kwargs) == AllFieldKeys \cap DOMAIN kwargs

Built(kwargs) ==
    [status |-> "built", stored |-> PublishablePayload_init(kwargs), error |-> NoError]

Raised(e) == [status |-> "raised", stored |-> {}, error |-> e]

\* PayloadInit with the base constructor run before the validation: the
\* fields are already stored when the validator raises
PayloadInitStoreFirst(service, kwargs) ==
    LET errors == validate_inputs(Dict(kwargs), RequiredFields(<<service>>), "")
    IN  IF errors = {} THEN {Built(kwargs)}
        ELSE {[status |-> "raised", stored |-> PublishablePayload_init(kwargs),
               error |-> e] : e \in errors}

\* <class>.__init__(**kwargs): validate against the service's required
\* fields, then run the base constructor.  The set of possible outcomes.
PayloadInit(service, kwargs) ==
    LET required_inputs == RequiredFields(<<service>>)
        errors == validate_inputs(Dict(kwargs), required_inputs, "")
    IN  IF errors = {} THEN {Built(kwargs)} ELSE {Raised(e) : e \in errors}

CITPayload_init(kwargs) == PayloadInit("citrine", kwargs)

MDFPayload_init(kwargs) == PayloadInit("materials_data_facility", kwargs)

MCPayload_init(kwargs) == PayloadInit("materials_commons", kwargs)

Returned(value) == [outcome |-> "returned", value |-> value, error |-> NoError]

MpRaised(e) == [outcome |-> "raised", value |-> None, error |-> e]

\* MCPayload.metapayload with name read as self['source'], the whole mapping
MCPayload_metapayloadWholeSource(self) ==
    Returned(Dict([key \in {"name", "description"} |->
        IF key = "name" THEN self["source"] ELSE self["description"]]))

\* MCPayload.metapayload
MCPayload_metapayload(self) ==
    Returned(Dict([key \in {"name", "description"} |->
        IF key = "name" THEN self["source"].d["name"] ELSE self["description"]]))

\* optional_keys of MDFPayload.metapayload
MDFOptionalKeys ==
    AllFieldKeys \ DOMAIN RequiredFields(<<"materials_data_facility">>)

\* the keys of the dict literal that opens MDFPayload.metapayload
MDFLiteralKeys ==
    {"title", "acl", "source_name", "links", "data_contact", "data_contributor"}

\* MDFLiteral with source_name read as self.source, the whole mapping
MDFLiteralWholeSource(self, key) ==
    CASE key = "title" -> self["title"]
      [] key = "acl" -> List(<<Word("public")>>)
      [] key = "source_name" -> self["source"]
      [] key = "links" -> self["links"]
      [] key = "data_contact" -> self["data_contacts"]
      [] key = "data_contributor" ->
            List([i \in DOMAIN self["data_contributors"].l |->
                    Dict(self["data_contributors"].l[i].d)])

\* the values of the dict literal that opens MDFPayload.metapayload
MDFLiteral(self, key) ==
    CASE key = "title" -> self["title"]
      [] key = "acl" -> List(<<Word("public")>>)
      [] key = "source_name" -> self["source"].d["name"]
      [] key = "links" -> self["links"]
      [] key = "data_contact" -> self["data_contacts"]
      [] key = "data_contributor" ->
            List([i \in DOMAIN self["data_contributors"].l |->
                    Dict(self["data_contributors"].l[i].d)])

\* the optional keys copied into dataset['mdf'] by the loop
MDFCopiedKeys(self) ==
    {key \in MDFOptionalKeys \ {"citations"} :
        key \in DOMAIN self /\ self[key] # None}

MDFBlock(self) ==
    LET copied == MDFCopiedKeys(self)
        cite == IF "citations" \in DOMAIN self THEN {"citation"} ELSE {}
    IN  [key \in MDFLiteralKeys \cup copied \cup cite |->
            IF key \in copied THEN self[key]
            ELSE IF key \in cite
            THEN List([i \in DOMAIN self["citations"].l |->
                         Str(citation_to_string(self["citations"].l[i].d))])
            ELSE MDFLiteral(self, key)]

\* "for author in citation['authors']" runs: the citation has no authors or
\* its authors value is a list
AuthorsIterable(c) == "authors" \notin DOMAIN c.d \/ IsList(c.d["authors"])

\* MDFPayload.metapayload: iterating a value that is no list raises TypeError
MDFPayload_metapayload(self) ==
    IF ~IsList(self["data_contributors"]) THEN MpRaised(TypeError)
    ELSE IF "citations" \in DOMAIN self /\ ~IsList(self["citations"])
    THEN MpRaised(TypeError)
    ELSE IF "citations" \in DOMAIN self /\
            \E i \in DOMAIN self["citations"].l : ~AuthorsIterable(self["citations"].l[i])
    THEN MpRaised(TypeError)
    ELSE Returned(Dict([key \in {"mdf", "dc"} |->
            IF key = "mdf" THEN Dict(MDFBlock(self)) ELSE Dict(EmptyDict)]))

(***************************************************************************)
(* CITPayload.metapayload.  The pypif objects are kept as the dicts of the *)
(* keyword arguments they are built from; pif.dumps leaves out the         *)
(* attributes that are None.                                               *)
(***************************************************************************)
\* d.get(key, default)
Get(d, key, default) == IF key \in DOMAIN d THEN d[key] ELSE default

\* the serialised form of a pypif object: attributes that are None are dropped
Dumps(f) == Dict([key \in {x \in DOMAIN f : f[x] # None} |-> f[key]])

\* CITPayload._add_source: the source block, or None when it is not set
CITSource(self) ==
    IF "source" \notin DOMAIN self \/ ~IsDict(self["source"]) THEN None
    ELSE LET source == self["source"].d
         IN  Dumps([key \in {"producer", "url", "tags"} |->
                CASE key = "producer" -> Get(source, "producer", None)
                  [] key = "url" -> Get(source, "url", None)
                  [] key = "tags" -> Get(source, "tags", List(<<>>))])

\* one person of add_to_people
CITPerson(person, tag) ==
    Dumps([key \in {"name", "orcid", "email", "tags"} |->
        CASE key = "name" ->
                Dumps([n \in {"given", "family", "title"} |->
                    CASE n = "given" -> Get(person, "given_name", Str(<<>>))
                      [] n = "family" -> Get(person, "family_name", Str(<<>>))
                      [] n = "title" -> Get(person, "title", Str(<<>>))])
          [] key = "orcid" -> Get(person, "orcid", None)
          [] key = "email" -> Get(person, "email", None)
          [] key = "tags" -> List(<<Word(tag)>>)])

\* add_to_people(self[key], [tag]) when self[key] is a list
CITPeopleOf(self, key, tag) ==
    IF key \in DOMAIN self /\ IsList(self[key])
    THEN [i \in DOMAIN self[key].l |-> CITPerson(self[key].l[i].d, tag)]
    ELSE <<>>

\* CITPayload._add_people
CITPeople(self) ==
    List(CITPeopleOf(self, "authors", "author") \o
         CITPeopleOf(self, "data_contacts", "contact") \o
         CITPeopleOf(self, "data_contributors", "contributor"))

\* CITPayload._add_licenses: pobj.License(**license) per element; an element
\* that raises is printed and skipped
LicenseConverts(license) ==
    /\ IsDict(license)
    /\ \A key \in DOMAIN license.d \cap {"name", "description", "url"} :
          license.d[key].k \in {"str", "none"}

CITLicenses(self) ==
    IF "licenses" \notin DOMAIN self \/ ~IsList(self["licenses"]) THEN None
    ELSE List(SelectSeq(self["licenses"].l, LicenseConverts))

citrine_citation_fields ==
    {"doi", "isbn", "issn", "url", "title", "publisher", "journal", "volume",
     "issue", "year", "figure", "table", "pages", "authors", "editors",
     "affiliations", "acknowledgements", "referenes", "tags"}

citrine_author_fields == {"title", "given", "family", "suffix", "tags"}

\* FixNameKeys that renames the keys: given_name and family_name are moved
\* to given and family instead of copied
FixNameKeysRename(author) ==
    LET a == author.d
        rename(key) == IF key = "given_name" THEN "given"
                       ELSE IF key = "family_name" THEN "family" ELSE key
    IN  Dict([key \in {rename(x) : x \in DOMAIN a} |->
            IF key = "given" /\ "given_name" \in DOMAIN a THEN a["given_name"]
            ELSE IF key = "family" /\ "family_name" \in DOMAIN a THEN a["family_name"]
            ELSE a[key]])

\* "fix name keys": author['given'] = author['given_name'] and the same for
\* family, assigned into the author dict of the citation itself
FixNameKeys(author) ==
    LET a == author.d
        added == (IF "given_name" \in DOMAIN a THEN {"given"} ELSE {}) \cup
                 (IF "family_name" \in DOMAIN a THEN {"family"} ELSE {})
    IN  Dict([key \in DOMAIN a \cup added |->
            IF key = "given" /\ "given" \in added THEN a["given_name"]
            ELSE IF key = "family" /\ "family" \in added THEN a["family_name"]
            ELSE a[key]])

\* the citation as _add_citations leaves it: the authors of a citation that
\* has them are rewritten in place
FixCitation(c) ==
    IF "authors" \in DOMAIN c.d
    THEN Dict([c.d EXCEPT !["authors"] =
                 List([i \in DOMAIN c.d["authors"].l |->
                         FixNameKeys(c.d["authors"].l[i])])])
    ELSE c

\* one pobj.Reference of _add_citations, built from the citation after its
\* authors have been rewritten
CITReference(c) ==
    LET fixed == FixCitation(c).d
        kept == DOMAIN fixed \cap citrine_citation_fields
    IN  Dumps([key \in kept \cup {"authors"} |->
            IF key = "authors"
            THEN IF "authors" \in kept
                 THEN List([i \in DOMAIN fixed["authors"].l |->
                        LET a == fixed["authors"].l[i].d
                        IN  Dumps([n \in DOMAIN a \cap citrine_author_fields |-> a[n]])])
                 ELSE List(<<>>)
            ELSE fixed[key]])

\* CITPayload._add_citations: the references, or None when not set
CITReferences(self) ==
    IF "citations" \notin DOMAIN self \/ ~IsList(self["citations"]) THEN None
    ELSE List([i \in DOMAIN self["citations"].l |->
                 CITReference(self["citations"].l[i])])

\* the index of the first citation whose authors loop raises, or one past
\* the last citation
FirstRaising(l) ==
    LET bad == {i \in DOMAIN l : ~AuthorsIterable(l[i])}
    IN  IF bad = {} THEN Len(l) + 1 ELSE CHOOSE i \in bad : \A j \in bad : i <= j

\* what _add_citations does to the citations list the payload shares with
\* the caller's record: the citations before the one that raises are rewritten
CITCitationsAfter(citations) ==
    IF ~IsList(citations) THEN citations
    ELSE List([i \in DOMAIN citations.l |->
                 IF i < FirstRaising(citations.l) THEN FixCitation(citations.l[i])
                 ELSE citations.l[i]])

\* CITPayload.metapayload: _add_citations has no try/except, so a citation
\* whose authors cannot be iterated raises out of the property
CITPayload_metapayload(self) ==
    IF /\ "citations" \in DOMAIN self
       /\ IsList(self["citations"])
       /\ FirstRaising(self["citations"].l) <= Len(self["citations"].l)
    THEN MpRaised(TypeError)
    ELSE
    Returned(Dumps([key \in {"source", "contacts", "licenses", "references"} |->
        CASE key = "source" -> CITSource(self)
          [] key = "contacts" -> CITPeople(self)
          [] key = "licenses" -> CITLicenses(self)
          [] key = "references" -> CITReferences(self)]))

(***************************************************************************)
(* The Common Records the caller supplies                                  *)
(***************************************************************************)
\* a record differs from BaseRecord in at most MaxDeviations fields
MaxDeviations == 3

Absent == [k |-> "absent"]

\* Human(given_name, family_name, email, institution)
Human(given_name, family_name, email, institution) ==
    Dict([key \in {"given_name", "family_name", "email", "institution"} |->
        CASE key = "given_name" -> given_name
          [] key = "family_name" -> family_name
          [] key = "email" -> email
          [] key = "institution" -> institution])

Scripty == Human(Word("Totally"), Word("NotARobot"), Word("a@a.com"), Word("Earth"))

\* the dict with the entries of f that are not Absent
Present(f) == [key \in {x \in DOMAIN f : f[x] # Absent} |-> f[key]]

JournalCitation ==
    Dict([key \in {"authors", "year", "title", "journal", "volume", "issue",
                   "page_location"} |->
        CASE key = "authors" ->
                List(<<Dict([n \in {"family_name", "given_name"} |->
                              IF n = "family_name" THEN Word("Doe") ELSE Word("J")]),
                       Dict([n \in {"family_name"} |-> Word("Roe")])>>)
          [] key = "year" -> Str(<<"2", "0", "0", "1">>)
          [] key = "title" -> Word("X")
          [] key = "journal" -> Word("Y")
          [] key = "volume" -> Word("5")
          [] key = "issue" -> Word("2")
          [] key = "page_location" -> Word("10-20")])

BookCitation ==
    Dict([key \in {"authors", "year", "title", "publication_location", "publisher"} |->
        CASE key = "authors" -> List(<<Dict([n \in {"given_name"} |-> Word("M")])>>)
          [] key = "year" -> IntVal(2010)
          [] key = "title" -> Word("Z")
          [] key = "publication_location" -> Word("Englewood")
          [] key = "publisher" -> Word("Morton")])

\* a citation whose authors value is no sequence
BadCitation ==
    Dict([key \in {"authors", "title"} |->
            IF key = "authors" THEN None ELSE Word("W")])

GoodLicense == Dict([n \in {"name", "url"} |-> Word("license")])

\* a license the target shape refuses: its name is no string
BadLicense == Dict([n \in {"name"} |-> IntVal(5)])

RecordFields ==
    {"title", "source", "description", "data_contacts", "data_contributors",
     "links", "authors", "licenses", "citations", "year", "foo"}

\* the values a field takes; "foo" is a field outside all_fields
FieldValues(key) ==
    CASE key = "title" -> {Absent, None, Word("T")}
      [] key = "source" ->
            {Absent, None, Dict(EmptyDict),
             Dict([n \in {"name"} |-> None]),
             Dict([n \in {"name", "producer"} |->
                     IF n = "name" THEN Word("S") ELSE Word("producer")])}
      [] key = "description" -> {Absent, None, Word("D")}
      [] key = "data_contacts" ->
            {Absent, List(<<>>), List(<<Scripty>>),
             List(<<Dict([n \in {"institution"} |-> Word("Earth")])>>)}
      [] key = "data_contributors" -> {Absent, None, List(<<Scripty>>)}
      [] key = "links" ->
            {Absent, Dict(EmptyDict), Dict([n \in {"landing_page"} |-> Word("L")])}
      [] key = "authors" -> {Absent, List(<<Scripty>>)}
      [] key = "licenses" ->
            {Absent, List(<<GoodLicense>>), List(<<BadLicense, GoodLicense>>)}
      [] key = "citations" ->
            {Absent, None, List(<<>>), List(<<JournalCitation, BookCitation>>),
             List(<<JournalCitation, BadCitation, BookCitation>>)}
      [] key = "year" -> {Absent, None, IntVal(2001)}
      [] key = "foo" -> {Absent, Word("x")}

\* a record that meets the requirements of all three services
BaseRecord ==
    [key \in RecordFields |->
        CASE key = "title" -> Word("T")
          [] key = "source" ->
                Dict([n \in {"name", "producer"} |->
                        IF n = "name" THEN Word("S") ELSE Word("producer")])
          [] key = "description" -> Word("D")
          [] key = "data_contacts" -> List(<<Scripty>>)
          [] key = "data_contributors" -> List(<<Scripty>>)
          [] key = "links" -> Dict([n \in {"landing_page"} |-> Word("L")])
          [] key = "authors" -> Absent
          [] key = "licenses" -> Absent
          [] key = "citations" -> List(<<JournalCitation, BookCitation>>)
          [] key = "year" -> IntVal(2001)
          [] key = "foo" -> Absent]

RECURSIVE Deviating(_)
Deviating(n) ==
    IF n = 0 THEN {BaseRecord}
    ELSE LET fewer == Deviating(n - 1)
         IN  fewer \cup
             {[r EXCEPT ![key] = v] :
                <<r, key, v>> \in
                    {<<r, key, v>> \in fewer \X RecordFields \X UNION {FieldValues(x) : x \in RecordFields} :
                        v \in FieldValues(key)}}

Records == {Present(r) : r \in Deviating(MaxDeviations)}

(***************************************************************************)
(* The state machine: one Common Record, one payload object per class      *)
(***************************************************************************)
Classes == {"CIT", "MDF", "MC"}

NoOutcome == [outcome |-> "none", value |-> None, error |-> NoError]

NoCitation == [x \in {} |-> None]

\* no template asked for
TemplateIdle == servicesArg = None /\ template = None

\* no Human object
HumanIdle == heap = <<>> /\ human = None

\* no payload of the pubmeta revision
PubIdle == pubKwargs = <<>> /\ pub = <<>> /\ pubOut = <<>>

\* no projections running side by side
ConcIdle == people = <<>> /\ shared = <<>> /\ threads = <<>> /\ expected = <<>>

OtherInit == TemplateIdle /\ HumanIdle /\ PubIdle /\ ConcIdle

Init ==
    /\ record \in Records
    /\ status = [c \in Classes |-> "none"]
    /\ stored = [c \in Classes |-> {}]
    /\ error = [c \in Classes |-> NoError]
    /\ mp = [c \in Classes |-> "none"]
    /\ out = [c \in Classes |-> NoOutcome]
    /\ citation = NoCitation
    /\ formatted = None
    /\ OtherInit

\* the payload object of class c: the stored keys, with the record's values
Self(c) == [key \in stored[c] |-> record[key]]

Construct(c, outcomes) ==
    /\ status[c] = "none"
    /\ \E o \in outcomes :
        /\ status' = [status EXCEPT ![c] = o.status]
        /\ stored' = [stored EXCEPT ![c] = o.stored]
        /\ error' = [error EXCEPT ![c] = o.error]
    /\ UNCHANGED <<record, mp, out, citation, formatted, otherVars>>

ConstructCIT == Construct("CIT", CITPayload_init(record))

ConstructMDF == Construct("MDF", MDFPayload_init(record))

ConstructMC == Construct("MC", MCPayload_init(record))

ReadMetapayload(c, o) ==
    /\ mp' = [mp EXCEPT ![c] = o.outcome]
    /\ out' = [out EXCEPT ![c] = o]
    /\ UNCHANGED <<status, stored, error, citation, formatted, otherVars>>

MetapayloadCIT ==
    /\ status["CIT"] = "built"
    /\ ReadMetapayload("CIT", CITPayload_metapayload(Self("CIT")))
    /\ record' = IF "citations" \in stored["CIT"]
                 THEN [record EXCEPT !["citations"] = CITCitationsAfter(@)]
                 ELSE record

MetapayloadMDF ==
    /\ status["MDF"] = "built"
    /\ ReadMetapayload("MDF", MDFPayload_metapayload(Self("MDF")))
    /\ UNCHANGED record

MetapayloadMC ==
    /\ status["MC"] = "built"
    /\ ReadMetapayload("MC", MCPayload_metapayload(Self("MC")))
    /\ UNCHANGED record

Next ==
    \/ ConstructCIT
    \/ ConstructMDF
    \/ ConstructMC
    \/ MetapayloadCIT
    \/ MetapayloadMDF
    \/ MetapayloadMC

Spec == Init /\ [][Next]_vars

(***************************************************************************)
(* Terms the properties are stated in                                      *)
(***************************************************************************)
ClassService(c) ==
    CASE c = "CIT" -> "citrine"
      [] c = "MC" -> "materials_commons"
      [] c = "MDF" -> "materials_data_facility"

\* the fields each service requires, as paths of keys
RequiredPaths(c) ==
    CASE c = "CIT" -> {}
      [] c = "MC" -> {<<"source", "name">>, <<"description">>}
      [] c = "MDF" -> {<<"title">>, <<"source", "name">>, <<"data_contacts">>,
                       <<"data_contributors">>, <<"links", "landing_page">>}

\* the dotted path of the first key of path that d lacks; "" when d has the
\* whole path, or holds a value that is no mapping on the way
RECURSIVE FirstMissing(_, _, _)
FirstMissing(d, path, prefix) ==
    LET here == IF prefix = "" THEN Head(path) ELSE prefix \o "." \o Head(path)
    IN  IF Head(path) \notin DOMAIN d THEN here
        ELSE IF Len(path) = 1 \/ ~IsDict(d[Head(path)]) THEN ""
        ELSE FirstMissing(d[Head(path)].d, Tail(path), here)

\* the required fields of class c that the record lacks
MissingPaths(c) == {FirstMissing(record, p, "") : p \in RequiredPaths(c)} \ {""}

\* whether d holds path and the value at its end is None
RECURSIVE NullAt(_, _)
NullAt(d, path) ==
    /\ Head(path) \in DOMAIN d
    /\ IF Len(path) = 1 THEN d[Head(path)] = None
       ELSE IsDict(d[Head(path)]) /\ NullAt(d[Head(path)].d, Tail(path))

\* whether d holds path, through mappings, with a value that is not None
RECURSIVE SetAt(_, _)
SetAt(d, path) ==
    /\ Head(path) \in DOMAIN d
    /\ IF Len(path) = 1 THEN d[Head(path)] # None
       ELSE IsDict(d[Head(path)]) /\ SetAt(d[Head(path)].d, Tail(path))

\* the record carries every field class c requires, none of them None
MeetsRequirements(c) == \A p \in RequiredPaths(c) : SetAt(record, p)

Constructed(c) == status[c] # "none"

(***************************************************************************)
(* Properties                                                              *)
(***************************************************************************)
\* C1: when the record lacks a field the service requires, construction
\* fails and the error message contains the dotted path of the missing field
\* (stated for records that lack one field, where "the missing field" is one
\* path; a missing top-level mapping counts as the missing field itself).
C1_ErrorNamesDottedPath ==
    \A c \in Classes :
        (Constructed(c) /\ Cardinality(MissingPaths(c)) = 1) =>
            /\ status[c] = "raised"
            /\ MissingPaths(c) \subseteq error[c].names

\* C2: the error the validator raises names every missing field and only
\* missing fields.
C2_ErrorNamesExactlyMissing ==
    \A c \in Classes :
        (status[c] = "raised" /\ error[c].type = "Exception") =>
            error[c].names = MissingPaths(c)

\* C3: validation runs before anything is stored or built: a record lacking
\* a required field makes construction raise, and a construction that raised
\* has stored no field and never returns a metapayload.
C3_ValidateBeforeStore ==
    \A c \in Classes :
        /\ (Constructed(c) /\ MissingPaths(c) # {}) => status[c] = "raised"
        /\ status[c] = "raised" =>
              /\ error[c] # NoError
              /\ stored[c] = {}
              /\ mp[c] = "none"
              /\ out[c] = NoOutcome

C3_Witness ==
    /\ status["MDF"] = "raised"
    /\ MissingPaths("MDF") # {}
    /\ mp["CIT"] = "returned"

\* C4: on a record that meets the requirements of all three services,
\* whatever its optional fields hold (None included), all three
\* constructions succeed and every metapayload returns.
C4_AllThreeSucceed ==
    (\A c \in Classes : MeetsRequirements(c)) =>
        \A c \in Classes : status[c] # "raised" /\ mp[c] # "raised"

\* C5: the Materials Commons payload has exactly the keys name and
\* description, name the record's source.name and description the record's
\* description, whatever else the record holds.
C5_MCExactlyTwoKeys ==
    mp["MC"] = "returned" =>
        /\ IsDict(out["MC"].value)
        /\ DOMAIN out["MC"].value.d = {"name", "description"}
        /\ out["MC"].value.d["name"] = record["source"].d["name"]
        /\ out["MC"].value.d["description"] = record["description"]

C5_Witness ==
    /\ mp["MC"] = "returned"
    /\ "foo" \in DOMAIN record
    /\ "title" \in DOMAIN record

\* C6: the Materials Data Facility payload has the blocks mdf and dc; mdf
\* holds the record's title, its source.name as source_name, acl ["public"]
\* and the record's links, and dc is empty: no optional field copied into mdf
\* changes title, acl or source_name.
C6_MDFRequiredBlock ==
    mp["MDF"] = "returned" =>
        LET payload == out["MDF"].value.d
        IN  /\ DOMAIN payload = {"mdf", "dc"}
            /\ payload["dc"] = Dict(EmptyDict)
            /\ payload["mdf"].d["title"] = record["title"]
            /\ payload["mdf"].d["source_name"] = record["source"].d["name"]
            /\ payload["mdf"].d["acl"] = List(<<Word("public")>>)
            /\ payload["mdf"].d["links"] = record["links"]

C6_Witness ==
    /\ mp["MDF"] = "returned"
    /\ {"year", "description", "authors"} \subseteq DOMAIN out["MDF"].value.d["mdf"].d

\* the optional fields of the Materials Data Facility projection, citations aside
C7_OptionalFields ==
    {"authors", "licenses", "repository", "collection", "tags", "description",
     "raw", "year", "composition"}

\* C7: an optional field has its entry in mdf exactly when the record holds
\* it with a value that is not None; citations has the entry citation, one
\* formatted string per citation in order; a field absent or None has no
\* entry and the projection does not fail.
C7_OptionalPresence ==
    (mp["MDF"] # "none" /\ MeetsRequirements("MDF")) =>
        /\ mp["MDF"] = "returned"
        /\ LET mdf == out["MDF"].value.d["mdf"].d
               set(key) == key \in DOMAIN record /\ record[key] # None
           IN  /\ \A key \in C7_OptionalFields : key \in DOMAIN mdf <=> set(key)
               /\ "citation" \in DOMAIN mdf <=> set("citations")
               /\ set("citations") =>
                     /\ Len(mdf["citation"].l) = Len(record["citations"].l)
                     /\ \A i \in DOMAIN mdf["citation"].l :
                           mdf["citation"].l[i] =
                               Str(citation_to_string(record["citations"].l[i].d))

\* C8: a record that holds a required field with value None is rejected at
\* construction.
C8_NullRequiredRejected ==
    \A c \in Classes :
        (Constructed(c) /\ \E p \in RequiredPaths(c) : NullAt(record, p)) =>
            status[c] = "raised"

\* C9: fields outside the recognized set never become keys of mdf and never
\* replace mdf or dc; the payload carries them under a namespace of their own.
C9_UnknownFieldsNamespaced ==
    (mp["MDF"] = "returned" /\ DOMAIN record \ AllFieldKeys # {}) =>
        LET payload == out["MDF"].value.d
            unknown == DOMAIN record \ AllFieldKeys
        IN  /\ {"mdf", "dc"} \subseteq DOMAIN payload
            /\ DOMAIN payload["mdf"].d \cap unknown = {}
            /\ payload["dc"] = Dict(EmptyDict)
            /\ \E ns \in DOMAIN payload \ {"mdf", "dc"} :
                  /\ IsDict(payload[ns])
                  /\ \A key \in unknown :
                        /\ key \in DOMAIN payload[ns].d
                        /\ payload[ns].d[key] = record[key]

(***************************************************************************)
(* The citation formatter on its own: one citation, formatted              *)
(***************************************************************************)
Doe == Dict([n \in {"family_name", "given_name"} |->
                IF n = "family_name" THEN Word("Doe") ELSE Word("J")])

Roe == Dict([n \in {"family_name"} |-> Word("Roe")])

Anonymous == Dict([n \in {"given_name"} |-> Word("M")])

\* every citation over these values: each field absent or present
FullCitations ==
    [authors : {Absent, List(<<>>), List(<<Doe>>), List(<<Doe, Roe>>),
                List(<<Anonymous>>), List(<<Anonymous, Roe>>)},
     year : {Absent, Str(<<"2", "0", "0", "1">>), IntVal(2001)},
     title : {Absent, Word("X"), Str(<<" ", "X", " ">>)},
     journal : {Absent, Word("Y")},
     volume : {Absent, Word("5")},
     issue : {Absent, Word("2")},
     page_location : {Absent, Word("10-20")},
     edition : {Absent, Word("2nd")},
     publication_location : {Absent, Word("Englewood")},
     publisher : {Absent, Word("Morton")},
     extent : {Absent, Word("300p")},
     notes : {Absent, Word("N")}]

Citations == {Present(f) : f \in FullCitations}

InitCite ==
    /\ record = Present(BaseRecord)
    /\ status = [c \in Classes |-> "none"]
    /\ stored = [c \in Classes |-> {}]
    /\ error = [c \in Classes |-> NoError]
    /\ mp = [c \in Classes |-> "none"]
    /\ out = [c \in Classes |-> NoOutcome]
    /\ citation \in Citations
    /\ formatted = None
    /\ OtherInit

FormatCitation ==
    /\ formatted = None
    /\ formatted' = Str(citation_to_string(citation))
    /\ UNCHANGED <<citation, record, status, stored, error, mp, out, otherVars>>

NextCite == FormatCitation

SpecCite == InitCite /\ [][NextCite]_vars

\* "family given" per author that has a family_name, in order
RECURSIVE C10_Names(_)
C10_Names(authors) ==
    IF authors = <<>> THEN <<>>
    ELSE LET a == Head(authors).d
             rest == C10_Names(Tail(authors))
         IN  IF "family_name" \in DOMAIN a
             THEN <<IF "given_name" \in DOMAIN a
                    THEN a["family_name"].s \o <<" ">> \o a["given_name"].s
                    ELSE a["family_name"].s>> \o rest
             ELSE rest

RECURSIVE C10_CommaJoin(_)
C10_CommaJoin(names) ==
    IF names = <<>> THEN <<>>
    ELSE IF Tail(names) = <<>> THEN Head(names)
    ELSE Head(names) \o <<",", " ">> \o C10_CommaJoin(Tail(names))

C10_Text(v) == IF v = IntVal(2001) THEN <<"2", "0", "0", "1">> ELSE v.s

\* the part a field contributes when the citation has it
C10_If(c, key, part) == IF key \in DOMAIN c THEN part ELSE <<>>

\* authors, year, title and journal, each followed by ". "
C10_Front(c) ==
    C10_If(c, "authors", C10_CommaJoin(C10_Names(c["authors"].l)) \o <<".", " ">>) \o
    C10_If(c, "year", C10_Text(c["year"]) \o <<".", " ">>) \o
    C10_If(c, "title", c["title"].s \o <<".", " ">>) \o
    c["journal"].s \o <<".", " ">>

C10_Volume(c) == C10_If(c, "volume", c["volume"].s)

C10_Issue(c) == C10_If(c, "issue", <<"(">> \o c["issue"].s \o <<")">>)

C10_Pages(c) ==
    C10_If(c, "page_location", <<":">> \o c["page_location"].s \o <<".", " ">>)

C10_Trim(chars) ==
    LET solid == {i \in DOMAIN chars : chars[i] # " "}
    IN  IF solid = {} THEN <<>>
        ELSE SubSeq(chars, CHOOSE i \in solid : \A j \in solid : i <= j,
                           CHOOSE i \in solid : \A j \in solid : j <= i)

\* C10 as stated: for a citation with a journal the string is the trimmed
\* concatenation of the parts, volume, issue and page_location each
\* contributing whenever it is present, in every combination.
C10_JournalEveryCombination ==
    (formatted # None /\ "journal" \in DOMAIN citation) =>
        formatted.s = C10_Trim(C10_Front(citation) \o C10_Volume(citation) \o
                                C10_Issue(citation) \o C10_Pages(citation))

\* C10 amended: issue and page_location contribute only when the citation
\* has a volume; with every field present the string is
\* "Doe J. 2001. X. Y. 5(2):10-20."
C10_JournalFormat ==
    (formatted # None /\ "journal" \in DOMAIN citation) =>
        /\ formatted.s =
              C10_Trim(C10_Front(citation) \o
                       C10_If(citation, "volume",
                              C10_Volume(citation) \o C10_Issue(citation) \o
                              C10_Pages(citation)))
        /\ ({"authors", "year", "title", "volume", "issue", "page_location"}
                \subseteq DOMAIN citation
            /\ citation["authors"] = List(<<Doe>>) /\ citation["title"] = Word("X")) =>
              formatted.s = <<"Doe", " ", "J", ".", " ", "2", "0", "0", "1", ".", " ",
                              "X", ".", " ", "Y", ".", " ", "5", "(", "2", ")", ":",
                              "10-20", ".">>

C10_Witness ==
    /\ formatted # None
    /\ {"journal", "issue", "page_location", "authors", "year"} \subseteq DOMAIN citation
    /\ "volume" \notin DOMAIN citation

\* the citation without the fields in keys
C11_Without(c, keys) == [key \in DOMAIN c \ keys |-> c[key]]

C11_BookFields == {"edition", "publication_location", "publisher", "extent", "notes"}

C11_JournalFields == {"volume", "issue", "page_location"}

\* C11: with a journal the string is what the citation gives without its
\* book fields; without a journal it is what the citation gives without
\* volume, issue and page_location.
C11_NoCrossContribution ==
    formatted # None =>
        IF "journal" \in DOMAIN citation
        THEN formatted.s = citation_to_string(C11_Without(citation, C11_BookFields))
        ELSE formatted.s = citation_to_string(C11_Without(citation, C11_JournalFields))

C11_Witness ==
    /\ formatted # None
    /\ {"journal", "volume", "publisher", "edition", "notes"} \subseteq DOMAIN citation

\* the elements of list l that satisfy Test, in order
C16_Convertible(l, Test(_)) == SelectSeq(l, Test)

\* C16: in the Citrine projection a license or citation that cannot be
\* converted is skipped on its own: the projection returns, and the payload
\* holds the converted forms of all other licenses and citations in order.
C16_ElementErrorsIsolated ==
    mp["CIT"] # "none" =>
        /\ mp["CIT"] = "returned"
        /\ LET payload == out["CIT"].value.d
               has(key) == key \in DOMAIN record /\ IsList(record[key])
           IN  /\ has("licenses") =>
                     payload["licenses"].l =
                         C16_Convertible(record["licenses"].l, LicenseConverts)
               /\ has("citations") =>
                     LET good == C16_Convertible(record["citations"].l, AuthorsIterable)
                     IN  payload["references"].l =
                             [i \in DOMAIN good |-> CITReference(good[i])]

\* the strings the citations of record r format to; a citation whose authors
\* cannot be iterated has none
C12_Strings(r) ==
    IF "citations" \in DOMAIN r /\ IsList(r["citations"])
    THEN [i \in DOMAIN r["citations"].l |->
            IF AuthorsIterable(r["citations"].l[i])
            THEN Str(citation_to_string(r["citations"].l[i].d)) ELSE None]
    ELSE <<>>

\* C12: whatever operation runs on the record between two formattings of one
\* of its citations (a Citrine or Materials Data Facility projection
\* included), the two strings are identical: no step changes the string a
\* citation of the record formats to.
C12_FormattingStable == [][C12_Strings(record') = C12_Strings(record)]_vars

C12_Witness ==
    /\ mp["CIT"] = "returned"
    /\ mp["MDF"] = "returned"
    /\ "citations" \in DOMAIN record
    /\ IsList(record["citations"])
    /\ \E i \in DOMAIN record["citations"].l :
          /\ "authors" \in DOMAIN record["citations"].l[i].d
          /\ "given" \in DOMAIN record["citations"].l[i].d["authors"].l[1].d
          /\ out["MDF"].value.d["mdf"].d["citation"].l[i] = C12_Strings(record)[i]

\* C14: constructing a payload and reading its metapayload leaves the
\* caller's record unchanged at every depth.
C14_RecordUnchanged == [][record' = record]_vars

\* the record holds key as a mapping that has sub
C19_HasNested(key, sub) ==
    key \in DOMAIN record /\ IsDict(record[key]) /\ sub \in DOMAIN record[key].d

\* C19: the validator does not descend into list-typed requirements: whether
\* the Materials Data Facility constructor accepts a record depends on
\* data_contacts and data_contributors only through the presence of the keys
\* (an empty list, or persons without given_name, family_name and email, are
\* accepted like complete persons).
C19_ListsNotInspected ==
    Constructed("MDF") =>
        (status["MDF"] = "built" <=>
            /\ {"title", "data_contacts", "data_contributors"} \subseteq DOMAIN record
            /\ C19_HasNested("source", "name")
            /\ C19_HasNested("links", "landing_page"))

C19_Witness ==
    /\ status["MDF"] = "built"
    /\ record["data_contacts"] \in {List(<<>>),
                                    List(<<Dict([n \in {"institution"} |-> Word("Earth")])>>)}
    /\ record["data_contributors"] = None

\* C20: for the Materials Data Facility and Materials Commons classes a
\* record whose source is present but no mapping, or a mapping without name,
\* is rejected at construction by the validator's own error, which
\* identifies source or source.name.
C20_MalformedSourceNamed ==
    \A c \in {"MDF", "MC"} :
        (/\ Constructed(c)
         /\ "source" \in DOMAIN record
         /\ ~C19_HasNested("source", "name")) =>
            /\ status[c] = "raised"
            /\ error[c].type = "Exception"
            /\ error[c].names \cap {"source", "source.name"} # {}

(***************************************************************************)
(* get_common_payload_template on its own: one call, its required_fields   *)
(***************************************************************************)
\* a services list holds at most MaxServices identifiers
MaxServices == 3

ServiceChars(name) ==
    CASE name = "citrine" -> <<"c", "i", "t", "r", "i", "n", "e">>
      [] name = "materials_commons" ->
            <<"m", "a", "t", "e", "r", "i", "a", "l", "s", "_",
              "c", "o", "m", "m", "o", "n", "s">>
      [] name = "materials_data_facility" ->
            <<"m", "a", "t", "e", "r", "i", "a", "l", "s", "_", "d", "a", "t", "a", "_",
              "f", "a", "c", "i", "l", "i", "t", "y">>

\* the identifier of a service, as a Python string
ServiceId(name) == Str(ServiceChars(name))

\* available_services
available_services == {ServiceId(name) : name \in Services}

UnknownId == Str(<<"b", "o", "g", "u", "s">>)

\* the values passed as services: None, one identifier as a string, or a
\* list of identifiers
ServicesArguments ==
    {None} \cup available_services \cup
    {List(q) : q \in UNION {[1..n -> available_services \cup {UnknownId}] :
                               n \in 0..MaxServices}}

\* "for service in services": a list gives its elements, a string its
\* characters, each a string of length one
Iterate(v) ==
    IF IsList(v) THEN v.l ELSE [i \in DOMAIN v.s |-> Str(<<v.s[i]>>)]

\* list(available_services): the set in any order
AnyOrder(set) ==
    {q \in [1..Cardinality(set) -> set] : \A i, j \in DOMAIN q : q[i] = q[j] => i = j}

\* the lists of services the loop can visit (lines 168-173)
VisitedServices(v) ==
    IF v = None THEN AnyOrder(available_services)
    ELSE LET known == SelectSeq(Iterate(v), LAMBDA x : x \in available_services)
         IN  IF known = <<>> THEN AnyOrder(available_services) ELSE {known}

ServiceName(id) == CHOOSE name \in Services : ServiceId(name) = id

InitTemplate ==
    /\ record = Present(BaseRecord)
    /\ status = [c \in Classes |-> "none"]
    /\ stored = [c \in Classes |-> {}]
    /\ error = [c \in Classes |-> NoError]
    /\ mp = [c \in Classes |-> "none"]
    /\ out = [c \in Classes |-> NoOutcome]
    /\ citation = NoCitation
    /\ formatted = None
    /\ servicesArg \in ServicesArguments
    /\ template = None
    /\ HumanIdle
    /\ PubIdle
    /\ ConcIdle

\* get_common_payload_template(services): the services visited, in order,
\* and the required_fields returned
GetTemplate ==
    /\ template = None
    /\ \E visited \in VisitedServices(servicesArg) :
          LET names == [i \in DOMAIN visited |-> ServiceName(visited[i])]
          IN  template' = [visited |-> names,
                           required_fields |-> CombineRequirements(EmptyDict, names)]
    /\ UNCHANGED <<servicesArg, payloadVars, citeVars, humanVars, pubVars, concVars>>

NextTemplate == GetTemplate

SpecTemplate == InitTemplate /\ [][NextTemplate]_vars

\* the union of the requirement schemas of the services named
C13_Union(names) ==
    [key \in UNION {DOMAIN ServiceRequirements(n) : n \in names} |->
        ServiceRequirements(CHOOSE n \in names :
                                key \in DOMAIN ServiceRequirements(n))[key]]

\* the known services a list argument holds
C13_KnownOf(v) ==
    IF IsList(v)
    THEN {n \in Services : \E i \in DOMAIN v.l : v.l[i] = ServiceId(n)}
    ELSE {}

\* C13: required_fields is the union of the schemas of the requested known
\* services, a single service given as an identifier or in a collection
\* included, unknown identifiers ignored; the union over all three when
\* services is unspecified or holds no known service.
C13_UnionOfRequested ==
    template # None =>
        LET asked == IF servicesArg \in available_services
                     THEN {ServiceName(servicesArg)} ELSE C13_KnownOf(servicesArg)
        IN  template.required_fields =
                C13_Union(IF asked = {} THEN Services ELSE asked)

(***************************************************************************)
(* The Human object: a dict whose instance dictionary is the dict itself.  *)
(* heap maps the address of a dictionary to its entries; human.dict is the *)
(* address human.__dict__ refers to.                                       *)
(***************************************************************************)
\* the address of the Human, as a dict, and of the instance dictionary the
\* interpreter gives it at creation
SelfAddress == "self"

OwnDictAddress == "own"

HumanFields == {"given_name", "family_name", "email", "institution", "given"}

HumanValues == {Str(<<>>), Word("TV"), None}

NoEntry == [k |-> "no entry"]

\* d[f] = v
SetEntry(d, f, v) == [x \in DOMAIN d \cup {f} |-> IF x = f THEN v ELSE d[x]]

\* __init__ without "self.__dict__ = self": the instance dictionary stays
\* the one made at creation
HumanInitOwnDict(given_name, family_name, email, institution) ==
    [heap |-> [a \in {SelfAddress, OwnDictAddress} |->
                  IF a = SelfAddress
                  THEN Human(given_name, family_name, email, institution).d
                  ELSE <<>>],
     dict |-> OwnDictAddress]

\* Human.__init__: super().__init__() leaves the dict empty, __dict__ is
\* rebound to the dict itself, then the four entries are set by key
HumanInit(given_name, family_name, email, institution) ==
    [heap |-> [a \in {SelfAddress, OwnDictAddress} |->
                  IF a = SelfAddress
                  THEN Human(given_name, family_name, email, institution).d
                  ELSE <<>>],
     dict |-> SelfAddress]

\* person[f]
GetItem(f) ==
    IF f \in DOMAIN heap[SelfAddress] THEN heap[SelfAddress][f] ELSE NoEntry

\* person.f: the entry of the instance dictionary
GetAttr(f) ==
    IF f \in DOMAIN heap[human.dict] THEN heap[human.dict][f] ELSE NoEntry

InitHuman ==
    /\ record = Present(BaseRecord)
    /\ status = [c \in Classes |-> "none"]
    /\ stored = [c \in Classes |-> {}]
    /\ error = [c \in Classes |-> NoError]
    /\ mp = [c \in Classes |-> "none"]
    /\ out = [c \in Classes |-> NoOutcome]
    /\ citation = NoCitation
    /\ formatted = None
    /\ TemplateIdle
    /\ HumanIdle
    /\ PubIdle
    /\ ConcIdle

\* someone = Human(given_name, family_name, email=..., institution=...)
ConstructHuman ==
    /\ human = None
    /\ \E email \in {Str(<<>>), Word("yeah@cool.com")},
          institution \in {Str(<<>>), Word("TV")} :
          LET args == Human(Word("Steve"), Word("Holt"), email, institution).d
              made == HumanInit(args.given_name, args.family_name,
                                args.email, args.institution)
          IN  /\ heap' = made.heap
              /\ human' = [dict |-> made.dict, args |-> args, last |-> "__init__"]
    /\ UNCHANGED <<payloadVars, citeVars, templateVars, pubVars, concVars>>

\* someone[f] = v
SetItem ==
    /\ human # None
    /\ \E f \in HumanFields, v \in HumanValues :
          heap' = [heap EXCEPT ![SelfAddress] = SetEntry(@, f, v)]
    /\ human' = [human EXCEPT !.last = "setitem"]
    /\ UNCHANGED <<payloadVars, citeVars, templateVars, pubVars, concVars>>

\* someone.f = v
SetAttr ==
    /\ human # None
    /\ \E f \in HumanFields, v \in HumanValues :
          heap' = [heap EXCEPT ![human.dict] = SetEntry(@, f, v)]
    /\ human' = [human EXCEPT !.last = "setattr"]
    /\ UNCHANGED <<payloadVars, citeVars, templateVars, pubVars, concVars>>

NextHuman == ConstructHuman \/ SetItem \/ SetAttr

SpecHuman == InitHuman /\ [][NextHuman]_vars

\* C17: for a Human, attribute access and key access denote the same entry
\* for every field name after construction and after any writes through
\* either style, and after construction the constructor arguments are read
\* under given_name, family_name, email and institution.
C17_SameEntry ==
    human # None =>
        /\ \A f \in HumanFields : GetAttr(f) = GetItem(f)
        /\ human.last = "__init__" =>
              \A f \in DOMAIN human.args :
                  GetAttr(f) = human.args[f] /\ GetItem(f) = human.args[f]

\* a field written by attribute is read by key
C17_Witness ==
    /\ human # None
    /\ human.last = "setattr"
    /\ GetItem("given") = Word("TV")
    /\ GetItem("email") = None

(***************************************************************************)
(* The pubmeta revision of the payload classes                             *)
(***************************************************************************)
\* the keys of all_fields in pubmeta's get_common_payload_template
pubmeta_all_fields == AllFieldKeys

\* the keys the base constructor keeps its own attributes under; with
\* self.__dict__ = self they are entries of the payload
PubAttributeKeys == {"_required_keys", "_optionalkeys", "additionalProperties"}

\* raise Exception(message)
PubException(message) == [type |-> "Exception", names |-> {message}]

KeyError == [type |-> "KeyError", names |-> {}]

PubBuilt(self) == [status |-> "built", self |-> self, error |-> NoError]

PubRaised(e) == [status |-> "raised", self |-> <<>>, error |-> e]

PubNone == [status |-> "none", self |-> <<>>, error |-> NoError]

\* the base constructor checking the keys the subclass assigned
RequiredKeysAtCheckKept(required_keys) == required_keys

\* self._required_keys as the loop of the base constructor reads it: the
\* subclass assigned it before "self.__dict__ = self", and the base
\* constructor then binds it to []
RequiredKeysAtCheck(required_keys) == <<>>

\* self._optionalkeys: a view of the keys of all_fields
KeysView(keys) == [k |-> "keys", of |-> keys]

\* pubmeta PublishablePayload.__init__(**kwargs) of a class that assigned
\* required_keys to self._required_keys
pubmeta_PublishablePayload_init(class, required_keys, kw) ==
    LET checked == RequiredKeysAtCheck(required_keys)
        missing == {i \in DOMAIN checked : checked[i] \notin DOMAIN kw}
    IN  IF missing # {}
        THEN PubRaised(PubException(
                class \o " requires " \o
                checked[CHOOSE i \in missing : \A j \in missing : i <= j]))
        ELSE PubBuilt(
            [key \in pubmeta_all_fields \cup PubAttributeKeys |->
                CASE key = "_required_keys" -> List(checked)
                  [] key = "_optionalkeys" -> KeysView(pubmeta_all_fields)
                  [] key = "additionalProperties" ->
                        Dict([x \in DOMAIN kw \ pubmeta_all_fields |-> kw[x]])
                  [] OTHER -> Get(kw, key, None)])

pubmeta_CITPayload_init(kw) ==
    pubmeta_PublishablePayload_init("CITPayload", <<>>, kw)

\* self._required_keys as MDFPayload.__init__ assigns it
MDFRequiredKeys == <<"title", "source", "data_contacts", "data_contributors", "links">>

\* self._required_keys as MCPayload.__init__ assigns it
MCRequiredKeys == <<"name", "description">>

pubmeta_MDFPayload_init(kw) ==
    LET base == pubmeta_PublishablePayload_init("MDFPayload", MDFRequiredKeys, kw)
    IN  CASE base.status = "raised" -> base
          [] base.status # "raised" /\ "source" \notin DOMAIN kw -> PubRaised(KeyError)
          [] base.status # "raised" /\ "source" \in DOMAIN kw /\ ~IsDict(kw["source"]) ->
                PubRaised(PubException("source must be a dictionary"))
          [] base.status # "raised" /\ "source" \in DOMAIN kw /\ IsDict(kw["source"])
                /\ "name" \notin DOMAIN base.self["source"].d ->
                PubRaised(PubException("source must contain \"name\""))
          [] OTHER -> base

pubmeta_MCPayload_init(kw) ==
    pubmeta_PublishablePayload_init("MCPayload", MCRequiredKeys, kw)

RECURSIVE Concat(_)
Concat(chars) == IF chars = <<>> THEN "" ELSE Head(chars) \o Concat(Tail(chars))

\* a string used as the key of a dict
KeyOf(v) == Concat(v.s)

\* what a metapayload property does: the outcome and the payload afterwards
PubResult(o, self) == [out |-> o, self |-> self]

\* pubmeta CITPayload.metapayload
pubmeta_CITPayload_metapayload(self) ==
    PubResult(
        Returned(Dumps([key \in {"source", "contacts", "licenses"} |->
            CASE key = "source" -> CITSource(self)
              [] key = "contacts" -> CITPeople(self)
              [] key = "licenses" -> CITLicenses(self)])),
        self)

\* pubmeta MDFPayload.metapayload.  In the dict literal the key
\* self.source['name'] comes last and replaces an equal key before it; the
\* loop over _optionalkeys then writes into dataset['mdf'], which in that
\* case is self.additionalProperties itself.
pubmeta_MDFPayload_metapayload(self) ==
    IF ~IsList(self["data_contributors"]) THEN PubResult(MpRaised(TypeError), self)
    ELSE
    LET name == KeyOf(self["source"].d["name"])
        mdf == [key \in {"title", "acl", "source_name", "citations", "links",
                         "data_contact", "data_contributor"} |->
                  CASE key = "title" -> self["title"]
                    [] key = "acl" -> List(<<Word("public")>>)
                    [] key = "source_name" -> self["source"].d["name"]
                    [] key = "citations" -> self["citations"]
                    [] key = "links" -> self["links"]
                    [] key = "data_contact" -> self["data_contacts"]
                    [] key = "data_contributor" -> self["data_contributors"]]
        literal == [key \in {"mdf", "dc", name} |->
                      CASE key = name -> self["additionalProperties"]
                        [] key # name /\ key = "mdf" -> Dict(mdf)
                        [] OTHER -> Dict(EmptyDict)]
        set == {key \in self["_optionalkeys"].of : self[key] # None}
        filled == Dict([key \in DOMAIN literal["mdf"].d \cup set |->
                          IF key \in set THEN self[key] ELSE literal["mdf"].d[key]])
    IN  PubResult(Returned(Dict([literal EXCEPT !["mdf"] = filled])),
                  IF name = "mdf"
                  THEN [self EXCEPT !["additionalProperties"] = filled]
                  ELSE self)

\* pubmeta MCPayload.metapayload
pubmeta_MCPayload_metapayload(self) ==
    CASE ~IsDict(self["source"]) -> PubResult(MpRaised(TypeError), self)
      [] IsDict(self["source"]) /\ "name" \notin DOMAIN self["source"].d ->
            PubResult(MpRaised(KeyError), self)
      [] OTHER ->
            PubResult(Returned(Dict([key \in {"name", "description"} |->
                IF key = "name" THEN self["source"].d["name"]
                ELSE self["description"]])), self)

\* the keyword arguments of the pubmeta state machine
PubFields ==
    {"title", "source", "data_contacts", "data_contributors", "links",
     "licenses", "description", "foo"}

PubFieldValues(key) ==
    CASE key = "title" -> {Absent, Word("Test Payload")}
      [] key = "source" ->
            {Absent, Word("whatever"), Dict(EmptyDict),
             Dict([n \in {"name"} |-> Word("whatever")]),
             Dict([n \in {"name"} |-> Word("mdf")]),
             Dict([n \in {"name", "producer", "url", "tags"} |->
                     IF n = "tags" THEN List(<<Word("these")>>) ELSE Word(n)])}
      [] key = "data_contacts" -> {Absent, List(<<Scripty>>)}
      [] key = "data_contributors" ->
            {Absent, List(<<Scripty>>),
             List(<<Scripty, Human(Word("Steve"), Word("Holt"), Str(<<>>), Str(<<>>))>>)}
      [] key = "links" -> {Absent, Dict([n \in {"landing_page"} |-> Word("L")])}
      [] key = "licenses" -> {Absent, List(<<GoodLicense>>), List(<<BadLicense, GoodLicense>>)}
      [] key = "description" -> {Absent, Word("D")}
      [] key = "foo" -> {Absent, Word("bar")}

\* the records over the fields of keys, one value of PubFieldValues each
RECURSIVE PubRecordsOver(_)
PubRecordsOver(keys) ==
    IF keys = {} THEN {EmptyDict}
    ELSE LET key == CHOOSE x \in keys : TRUE
         IN  {[x \in DOMAIN r \cup {key} |-> IF x = key THEN v ELSE r[x]] :
                 <<r, v>> \in PubRecordsOver(keys \ {key}) \X PubFieldValues(key)}

PubRecords == {Present(r) : r \in PubRecordsOver(PubFields)}

InitPub ==
    /\ record = Present(BaseRecord)
    /\ status = [c \in Classes |-> "none"]
    /\ stored = [c \in Classes |-> {}]
    /\ error = [c \in Classes |-> NoError]
    /\ mp = [c \in Classes |-> "none"]
    /\ out = [c \in Classes |-> NoOutcome]
    /\ citation = NoCitation
    /\ formatted = None
    /\ TemplateIdle
    /\ HumanIdle
    /\ pubKwargs \in PubRecords
    /\ pub = [c \in Classes |-> PubNone]
    /\ pubOut = [c \in Classes |-> NoOutcome]
    /\ ConcIdle

PubConstruct(c, made) ==
    /\ pub[c].status = "none"
    /\ pub' = [pub EXCEPT ![c] = made]
    /\ UNCHANGED <<pubKwargs, pubOut, payloadVars, citeVars, templateVars, humanVars,
                   concVars>>

PubConstructCIT == PubConstruct("CIT", pubmeta_CITPayload_init(pubKwargs))

PubConstructMDF == PubConstruct("MDF", pubmeta_MDFPayload_init(pubKwargs))

PubConstructMC == PubConstruct("MC", pubmeta_MCPayload_init(pubKwargs))

PubMetapayload(c, result) ==
    /\ pubOut' = [pubOut EXCEPT ![c] = result.out]
    /\ pub' = [pub EXCEPT ![c].self = result.self]
    /\ UNCHANGED <<pubKwargs, payloadVars, citeVars, templateVars, humanVars, concVars>>

PubMetapayloadCIT ==
    /\ pub["CIT"].status = "built"
    /\ PubMetapayload("CIT", pubmeta_CITPayload_metapayload(pub["CIT"].self))

PubMetapayloadMDF ==
    /\ pub["MDF"].status = "built"
    /\ PubMetapayload("MDF", pubmeta_MDFPayload_metapayload(pub["MDF"].self))

PubMetapayloadMC ==
    /\ pub["MC"].status = "built"
    /\ PubMetapayload("MC", pubmeta_MCPayload_metapayload(pub["MC"].self))

NextPub ==
    \/ PubConstructCIT
    \/ PubConstructMDF
    \/ PubConstructMC
    \/ PubMetapayloadCIT
    \/ PubMetapayloadMDF
    \/ PubMetapayloadMC

SpecPub == InitPub /\ [][NextPub]_vars

\* the shape of the keyword arguments of test_metapayload
C18_TestShape ==
    /\ {"title", "source", "data_contacts", "data_contributors", "links",
        "licenses"} \subseteq DOMAIN pubKwargs
    /\ "description" \notin DOMAIN pubKwargs
    /\ IsDict(pubKwargs["source"]) /\ "name" \in DOMAIN pubKwargs["source"].d
    /\ IsDict(pubKwargs["links"]) /\ "landing_page" \in DOMAIN pubKwargs["links"].d

Threads == {"first", "second"}

Addresses == {"scripty", "doe"}

RuntimeError == [type |-> "RuntimeError", names |-> {}]

\* a person object with its keys in insertion order
PersonObject(d, order) == [d |-> d, order |-> order]

ScriptyObject ==
    PersonObject(Scripty.d, <<"given_name", "family_name", "email", "institution">>)

\* the authors written as dict literals in a citation
DoeObjects ==
    {PersonObject(Doe.d, <<"family_name", "given_name">>),
     PersonObject([n \in {"family_name"} |-> Word("Roe")], <<"family_name">>)}

\* the fields of a citation other than its authors
CitationFields == [key \in DOMAIN JournalCitation.d \ {"authors"} |-> JournalCitation.d[key]]

\* the lists of authors of a citation, by address
AuthorLists == {<<"doe">>, <<"scripty">>, <<"doe", "scripty">>}

\* the lists of citations of the record, each citation by its authors
CitationLists ==
    {<<a>> : a \in AuthorLists} \cup {<<a, b>> : <<a, b>> \in AuthorLists \X AuthorLists}

\* the dict a person object holds now
PersonNow(objects, a) == Dict(objects[a].d)

\* the citation whose authors are the addresses in authors, as a value
CitationNow(objects, authors) ==
    Dict([key \in DOMAIN CitationFields \cup {"authors"} |->
        IF key = "authors"
        THEN List([j \in DOMAIN authors |-> PersonNow(objects, authors[j])])
        ELSE CitationFields[key]])

\* the payload's entries as values: BaseRecord with the data contributors and
\* the citations of rec read from the person objects
SelfNow(objects, rec) ==
    [key \in DOMAIN Present(BaseRecord) \cup {"data_contributors", "citations"} |->
        CASE key = "data_contributors" ->
                List([j \in DOMAIN rec.data_contributors |->
                        PersonNow(objects, rec.data_contributors[j])])
          [] key = "citations" ->
                List([i \in DOMAIN rec.citations |->
                        CitationNow(objects, rec.citations[i])])
          [] OTHER -> Present(BaseRecord)[key]]

\* the metapayload of class c read with no other thread running
Alone(c, objects, rec) ==
    CASE c = "CIT" -> CITPayload_metapayload(SelfNow(objects, rec))
      [] c = "MDF" -> MDFPayload_metapayload(SelfNow(objects, rec))
      [] c = "MC" -> MCPayload_metapayload(SelfNow(objects, rec))

\* a thread about to read the metapayload of a payload of class c
ThreadAt(c) ==
    [class |-> c, pc |-> "start", i |-> 0, j |-> 0, size |-> 0, k |-> 0,
     picked |-> EmptyDict, names |-> <<>>, built |-> <<>>, copies |-> <<>>,
     result |-> NoOutcome]

InitConc ==
    /\ record = Present(BaseRecord)
    /\ status = [c \in Classes |-> "none"]
    /\ stored = [c \in Classes |-> {}]
    /\ error = [c \in Classes |-> NoError]
    /\ mp = [c \in Classes |-> "none"]
    /\ out = [c \in Classes |-> NoOutcome]
    /\ citation = NoCitation
    /\ formatted = None
    /\ TemplateIdle
    /\ HumanIdle
    /\ PubIdle
    /\ \E doe \in DoeObjects :
          people = [a \in Addresses |-> IF a = "doe" THEN doe ELSE ScriptyObject]
    /\ \E citations \in CitationLists :
          shared = [data_contributors |-> <<"scripty">>, citations |-> citations]
    /\ \E classes \in [Threads -> Classes] :
          threads = [t \in Threads |-> ThreadAt(classes[t])]
    /\ expected = [t \in Threads |-> Alone(threads[t].class, people, shared)]

\* thread t moves to next, with the shared objects as given
ThreadStep(t, next, objects) ==
    /\ threads' = [threads EXCEPT ![t] = next]
    /\ people' = objects
    /\ UNCHANGED <<shared, expected, payloadVars, citeVars, templateVars, humanVars,
                   pubVars>>

\* author[key] = value
StoreKey(objects, a, key, value) ==
    [objects EXCEPT ![a] =
        PersonObject(SetEntry(@.d, key, value),
                     IF key \in DOMAIN @.d THEN @.order ELSE Append(@.order, key))]

\* the thread after the authors of citation i are done: the Reference is
\* built and the loop goes to the next citation, or the references are set
\* and the property returns
AfterCitation(th, source, contacts, licenses) ==
    LET authors == shared.citations[th.i]
        kept == (DOMAIN CitationFields \cup {"authors"}) \cap citrine_citation_fields
        reference == Dumps([key \in kept \cup {"authors"} |->
                        IF key = "authors" THEN List(th.names) ELSE CitationFields[key]])
        built == Append(th.built, reference)
    IN  IF th.i < Len(shared.citations)
        THEN [th EXCEPT !.built = built, !.names = <<>>, !.i = th.i + 1, !.j = 1,
                        !.pc = "given"]
        ELSE [th EXCEPT !.built = built, !.names = <<>>, !.pc = "done",
                        !.result = Returned(Dumps(
                            [key \in {"source", "contacts", "licenses", "references"} |->
                                CASE key = "source" -> source
                                  [] key = "contacts" -> contacts
                                  [] key = "licenses" -> licenses
                                  [] key = "references" -> List(built)]))]

\* CITPayload.metapayload up to the loop over the citations: _add_source,
\* _add_people and _add_licenses read entries no thread writes
CITBegin(t) ==
    /\ threads[t].class = "CIT" /\ threads[t].pc = "start"
    /\ ThreadStep(t, [threads[t] EXCEPT !.pc = "given", !.i = 1, !.j = 1], people)

\* if 'given_name' in author: author['given'] = author['given_name']
CITFixGiven(t) ==
    LET th == threads[t]
        a == shared.citations[th.i][th.j]
    IN  /\ th.class = "CIT" /\ th.pc = "given"
        /\ ThreadStep(t, [th EXCEPT !.pc = "family"],
              IF "given_name" \in DOMAIN people[a].d
              THEN StoreKey(people, a, "given", people[a].d["given_name"])
              ELSE people)

\* if 'family_name' in author: author['family'] = author['family_name']
CITFixFamily(t) ==
    LET th == threads[t]
        a == shared.citations[th.i][th.j]
    IN  /\ th.class = "CIT" /\ th.pc = "family"
        /\ ThreadStep(t, [th EXCEPT !.pc = "iter"],
              IF "family_name" \in DOMAIN people[a].d
              THEN StoreKey(people, a, "family", people[a].d["family_name"])
              ELSE people)

\* "for key in author": the iterator is made and remembers the size
CITIterAuthor(t) ==
    LET th == threads[t]
        a == shared.citations[th.i][th.j]
    IN  /\ th.class = "CIT" /\ th.pc = "iter"
        /\ ThreadStep(t, [th EXCEPT !.pc = "next", !.size = Len(people[a].order),
                                    !.k = 0, !.picked = EmptyDict], people)

\* one turn of "for key in author if key in citrine_author_fields": the
\* iterator raises when the size of the dict has changed; at its end the Name
\* is built and the loop goes to the next author
CITNextKey(t) ==
    LET th == threads[t]
        a == shared.citations[th.i][th.j]
        self == SelfNow(people, shared)
    IN  /\ th.class = "CIT" /\ th.pc = "next"
        /\ IF Len(people[a].order) # th.size
           THEN ThreadStep(t, [th EXCEPT !.pc = "done", !.result = MpRaised(RuntimeError)],
                           people)
           ELSE IF th.k < th.size
           THEN LET key == people[a].order[th.k + 1]
                IN  ThreadStep(t,
                       [th EXCEPT !.k = th.k + 1,
                                  !.picked = IF key \in citrine_author_fields
                                             THEN SetEntry(@, key, people[a].d[key])
                                             ELSE @],
                       people)
           ELSE LET named == [th EXCEPT !.names = Append(@, Dumps(th.picked)),
                                        !.picked = EmptyDict]
                IN  IF th.j < Len(shared.citations[th.i])
                    THEN ThreadStep(t, [named EXCEPT !.j = th.j + 1, !.pc = "given"], people)
                    ELSE ThreadStep(t,
                            AfterCitation(named, CITSource(self), CITPeople(self),
                                          CITLicenses(self)),
                            people)

\* MDFPayload.metapayload: the dict literal up to its data contributors
MDFBegin(t) ==
    /\ threads[t].class = "MDF" /\ threads[t].pc = "start"
    /\ ThreadStep(t, [threads[t] EXCEPT !.pc = "copy", !.j = 1], people)

\* dict(data_contributor) for one data contributor
MDFCopyContributor(t) ==
    LET th == threads[t]
    IN  /\ th.class = "MDF" /\ th.pc = "copy"
        /\ th.j <= Len(shared.data_contributors)
        /\ ThreadStep(t,
              [th EXCEPT !.copies = Append(@, PersonNow(people, shared.data_contributors[th.j])),
                         !.j = th.j + 1],
              people)

\* the rest of the literal and the loop over optional_keys: entries no thread
\* writes
MDFOptional(t) ==
    LET th == threads[t]
    IN  /\ th.class = "MDF" /\ th.pc = "copy"
        /\ th.j > Len(shared.data_contributors)
        /\ ThreadStep(t, [th EXCEPT !.pc = "cite", !.i = 1], people)

\* _citation_to_string(citation) for one citation, and the return after the
\* last one
MDFCite(t) ==
    LET th == threads[t]
        text == Str(citation_to_string(CitationNow(people, shared.citations[th.i]).d))
        cited == Append(th.built, text)
        self == SelfNow(people, shared)
        block == [key \in DOMAIN MDFBlock(self) |->
                    CASE key = "data_contributor" -> List(th.copies)
                      [] key = "citation" -> List(cited)
                      [] OTHER -> MDFBlock(self)[key]]
    IN  /\ th.class = "MDF" /\ th.pc = "cite"
        /\ IF th.i < Len(shared.citations)
           THEN ThreadStep(t, [th EXCEPT !.built = cited, !.i = th.i + 1], people)
           ELSE ThreadStep(t,
                   [th EXCEPT !.built = cited, !.pc = "done",
                              !.result = Returned(Dict([key \in {"mdf", "dc"} |->
                                  IF key = "mdf" THEN Dict(block) ELSE Dict(EmptyDict)]))],
                   people)

\* MCPayload.metapayload
MCRead(t) ==
    /\ threads[t].class = "MC" /\ threads[t].pc = "start"
    /\ ThreadStep(t,
          [threads[t] EXCEPT !.pc = "done",
                             !.result = MCPayload_metapayload(SelfNow(people, shared))],
          people)

NextConc ==
    \E t \in Threads :
        \/ CITBegin(t)
        \/ CITFixGiven(t)
        \/ CITFixFamily(t)
        \/ CITIterAuthor(t)
        \/ CITNextKey(t)
        \/ MDFBegin(t)
        \/ MDFCopyContributor(t)
        \/ MDFOptional(t)
        \/ MDFCite(t)
        \/ MCRead(t)

SpecConc == InitConc /\ [][NextConc]_vars

\* C15: two projections of one record running side by side, under every
\* interleaving of their steps, both complete without error and each returns
\* the payload it returns when run alone.
C15_ConcurrentAsAlone ==
    \A t \in Threads :
        threads[t].pc = "done" => threads[t].result = expected[t]

\* the name of the class and the keys it assigns to self._required_keys
C21_ClassName(c) == IF c = "MDF" THEN "MDFPayload" ELSE "MCPayload"

C21_RequiredKeys(c) == IF c = "MDF" THEN MDFRequiredKeys ELSE MCRequiredKeys

C21_Missing(c) ==
    {C21_RequiredKeys(c)[i] : i \in DOMAIN C21_RequiredKeys(c)} \ DOMAIN pubKwargs

\* C21: in the pubmeta revision, constructing MDFPayload or MCPayload from
\* keyword arguments that lack one of the keys the class assigned to
\* _required_keys raises an exception naming the class and the key.
C21_RequiredKeysValidated ==
    \A c \in {"MDF", "MC"} :
        (pub[c].status # "none" /\ C21_Missing(c) # {}) =>
            /\ pub[c].status = "raised"
            /\ \E key \in C21_Missing(c) :
                  pub[c].error = PubException(C21_ClassName(c) \o " requires " \o key)

\* the services a call has visited, as a set
C22_Visited == {template.visited[i] : i \in DOMAIN template.visited}

\* C22: the merged requirement schema does not depend on the order the
\* services are visited in: every order of the services visited gives the
\* required_fields the call returned, the subtree under source included.
C22_OrderIndependent ==
    template # None =>
        \A order \in AnyOrder(C22_Visited) :
            CombineRequirements(EmptyDict, order) = template.required_fields

\* both services with a source subtree visited, Materials Data Facility first
C22_Witness ==
    /\ template # None
    /\ template.visited = <<"materials_data_facility", "materials_commons">>
    /\ template.required_fields["source"] = Dict([n \in {"name"} |-> Word("string")])
    /\ "description" \in DOMAIN template.required_fields

====
